---- MODULE Spec2Model ----
(***************************************************************************)
(* A model of sponsorblock.py: the memoizing cache decorator of            *)
(* sponsorblock/utils.py and the request / classify / decode pattern of    *)
(* the operations of sponsorblock/client.py.                               *)
(*                                                                         *)
(* Instants of datetime are integers; datetime.max is an integer larger    *)
(* than every instant the bounded clock and ttl can produce.  The cache    *)
(* (a Python dict, which iterates in insertion order) is a sequence of     *)
(* entries [key, result, expiry] in insertion order.                       *)
(***************************************************************************)
EXTENDS Integers, Sequences, FiniteSets, TLC

\* ---------------------------------------------------------------- bounds
NumKeys == 3
NumResults == 2
MaxTtl == 1
MaxCap == 2
MaxClock == 2
NumArgs == 1
MaxEntries == 2
NumThreads == 2

Keys == 1..NumKeys
Results == 1..NumResults

\* datetime.max: later than every instant reachable within the bounds
DatetimeMax == MaxClock + MaxTtl + 1

VARIABLES
    kwargs,     \* the keyword arguments given to cache(**kwargs)
    cache,      \* function.cache, in insertion order
    now,        \* the wall clock read by datetime.now()
    lastCall,   \* what the most recent call of the wrapper did
    stored,     \* per key: instant and result of the last store, cleared
                \* when the capacity branch removes the key
    client,     \* the fields of the Client object the methods read
    cliCache,   \* function.cache of each decorated method of Client
    cliCall,    \* what the most recent call of a Client method did
    seg,        \* what the most recent call of Segment.from_dict did
    thr         \* per thread: where it stands in a call of the wrapper

cacheVars == <<kwargs, cache, now, lastCall, stored>>
clientVars == <<client, cliCache, cliCall>>
otherVars == <<seg, thr>>
vars ==
    <<kwargs, cache, now, lastCall, stored, client, cliCache, cliCall, seg, thr>>

\* ------------------------------------------------- the cache dictionary
HasKey(c, args) == \E i \in 1..Len(c) : c[i].key = args

IndexOf(c, args) == CHOOSE i \in 1..Len(c) : c[i].key = args

Lookup(c, args) == c[IndexOf(c, args)]

KeysOf(c) == {c[i].key : i \in 1..Len(c)}

\* the lookup test with >= where the code has >
IsMissAtExpiry(c, args, t) == ~HasKey(c, args) \/ t >= Lookup(c, args).expiry

\* "not args in function.cache or datetime.now() > function.cache[args]['expiry']"
IsMiss(c, args, t) == ~HasKey(c, args) \/ t > Lookup(c, args).expiry

\* the capacity test with > where the code has >=
AtCapacityLate(c, kw) == kw.maxKind = "int" /\ Len(c) > kw.max

\* "'max_entries' in kwargs", "max_entries is not None and len(function.cache) >= max_entries"
AtCapacity(c, kw) == kw.maxKind = "int" /\ Len(c) >= kw.max

\* the dict comprehension that keeps the entries with expiry > now
Purge(c, t) == SelectSeq(c, LAMBDA e : e.expiry > t)

\* an eviction of the newest entry instead of the oldest
EvictNewest(c) == SubSeq(c, 1, Len(c) - 1)

\* "del function.cache[next(iter(function.cache))]"
Evict(c) == Tail(c)

\* an expiry that forgets the datetime.max default
EntryExpiryNoDefault(kw, t) == t + kw.ttl

\* "datetime.max if 'ttl' not in kwargs else datetime.now() + kwargs['ttl']"
EntryExpiry(kw, t) == IF kw.ttlKind = "absent" THEN DatetimeMax ELSE t + kw.ttl

\* a store that leaves the entry of an existing key as it is
StoreIfAbsent(c, e) == IF HasKey(c, e.key) THEN c ELSE Append(c, e)

\* a store that always adds an entry, also for an existing key
StoreAppend(c, e) == Append(c, e)

\* a store that moves the entry of an existing key to the end
StoreMoveToEnd(c, e) == Append(SelectSeq(c, LAMBDA x : x.key # e.key), e)

\* "function.cache[args] = {...}": an existing key keeps its position
Store(c, e) ==
    IF HasKey(c, e.key)
    THEN [i \in 1..Len(c) |-> IF c[i].key = e.key THEN e ELSE c[i]]
    ELSE Append(c, e)

\* the capacity branch of the wrapper: purge, then evict the first entry
MakeRoom(c, kw, t) ==
    IF ~AtCapacity(c, kw)
    THEN [cache |-> c, purged |-> 0, evicted |-> 0]
    ELSE LET p == Purge(c, t) IN
         IF Len(p) < kw.max
         THEN [cache |-> p, purged |-> Len(c) - Len(p), evicted |-> 0]
         ELSE [cache |-> Evict(p), purged |-> Len(c) - Len(p),
               evicted |-> Head(p).key]

\* a wrapper that stores an empty result when the function raises
CallAndStoreFailure(c, kw, args, t, fout) ==
    IF fout.exc # "none"
    THEN [cache |-> Store(c, [key |-> args, result |-> 0,
                              expiry |-> EntryExpiry(kw, t)]),
          exc |-> fout.exc, ret |-> 0]
    ELSE LET c2 == Store(c, [key |-> args, result |-> fout.result,
                             expiry |-> EntryExpiry(kw, t)])
         IN [cache |-> c2, exc |-> "none", ret |-> Lookup(c2, args).result]

\* what happens after the capacity branch: the dict display calls the
\* function first, then computes the expiry, then the entry is stored
CallAndStore(c, kw, args, t, fout) ==
    IF fout.exc # "none"
    THEN [cache |-> c, exc |-> fout.exc, ret |-> 0]
    ELSE IF kw.ttlKind = "int"
    THEN [cache |-> c, exc |-> "TypeError", ret |-> 0]
    ELSE LET c2 == Store(c, [key |-> args, result |-> fout.result,
                             expiry |-> EntryExpiry(kw, t)])
         IN [cache |-> c2, exc |-> "none", ret |-> Lookup(c2, args).result]

\* which disjunct of the wrapper's first test holds
LookupKind(c, args, t) ==
    IF ~HasKey(c, args) THEN "absent"
    ELSE IF IsMiss(c, args, t) THEN "expired" ELSE "fresh"

\* wrapper(*args): t1, t2, t3 are the three reads of datetime.now(),
\* fout is what function(*args) does if it is invoked
wrapper(c, kw, args, t1, t2, t3, fout) ==
    IF ~IsMiss(c, args, t1)
    THEN [cache |-> c, lookup |-> "fresh", invoked |-> FALSE, exc |-> "none",
          ret |-> Lookup(c, args).result, purged |-> 0, evicted |-> 0,
          removed |-> {}]
    ELSE LET room == MakeRoom(c, kw, t2)
             s == CallAndStore(room.cache, kw, args, t3, fout)
         IN [cache |-> s.cache, lookup |-> LookupKind(c, args, t1),
             invoked |-> TRUE, exc |-> s.exc, ret |-> s.ret,
             purged |-> room.purged, evicted |-> room.evicted,
             removed |-> KeysOf(c) \ KeysOf(room.cache)]

NotStored == [at |-> -1, res |-> 0]

NoCall ==
    [key |-> 0, lookup |-> "absent", invoked |-> FALSE,
     exc |-> "none", ret |-> 0, purged |-> 0, evicted |-> 0]

\* no call of Segment.from_dict yet
NoSegment ==
    [data |-> [category |-> "none", segment |-> <<>>, UUID |-> "none",
               actionType |-> "none"],
     exc |-> "none", made |-> FALSE, category |-> "none", start |-> 0,
     end |-> 0, uuid |-> "none", duration |-> 0, action_type |-> "none"]

Threads == 1..NumThreads

\* no thread is inside the wrapper
IdleThreads ==
    [t \in Threads |->
        [pc |-> "idle", args |-> 0, result |-> 0, stored |-> FALSE,
         exc |-> "none", ret |-> 0]]

\* ------------------------------------------------------------ the client
\* status codes the code compares with
StatusOK == 200
StatusBadRequest == 400
StatusForbidden == 403
StatusNotFound == 404
StatusDuplicate == 409
StatusRateLimit == 429
StatusServerError == 500

\* video_hash lengths the code compares with ("not 4 < len(video_hash) < 33")
HashLenAbove == 4
HashLenBelow == 33

\* the decorator arguments of the Client methods
SegmentsTtl == 300
UserInfoTtl == 900
CounterTtl == 60
TopUsersTtl == 3600
InfoMaxEntries == 300

\* --- strings are sequences of one-character strings
\* "len(video_id) != 11" and the {11} of VIDEO_ID_REGEX
IdLen == 11

\* hexdigest()[:32]
DigestCut == 32


\* hashed_video_id_length: int = 4
DefaultHashLength == 4

\* n times the character ch
Run(ch, n) == [i \in 1..n |-> ch]

\* the character class [a-zA-Z0-9_-] of VIDEO_ID_REGEX
IdChars ==
    {"a", "b", "c", "d", "e", "f", "g", "h", "i", "j", "k", "l", "m", "n",
     "o", "p", "q", "r", "s", "t", "u", "v", "w", "x", "y", "z",
     "A", "B", "C", "D", "E", "F", "G", "H", "I", "J", "K", "L", "M", "N",
     "O", "P", "Q", "R", "S", "T", "U", "V", "W", "X", "Y", "Z",
     "0", "1", "2", "3", "4", "5", "6", "7", "8", "9", "_", "-"}

\* group 3 of VIDEO_ID_REGEX: watch\x3Fv=
WatchLit == <<"w", "a", "t", "c", "h", "?", "v", "=">>

\* group 4 of VIDEO_ID_REGEX: embed\/watch\x3Ffeature\=player_embedded\x26v=
EmbedLit ==
    <<"e", "m", "b", "e", "d", "/", "w", "a", "t", "c", "h", "?",
      "f", "e", "a", "t", "u", "r", "e", "=",
      "p", "l", "a", "y", "e", "r", "_", "e", "m", "b", "e", "d", "d", "e", "d",
      "&", "v", "=">>

\* the number of consecutive characters of the class from position q of s on
RECURSIVE IdRun(_, _)
IdRun(s, q) ==
    IF q > Len(s) \/ s[q] \notin IdChars THEN 0 ELSE 1 + IdRun(s, q + 1)

\* the literal lit stands at position q of s
HasLit(s, q, lit) ==
    /\ q + Len(lit) - 1 <= Len(s)
    /\ SubSeq(s, q, q + Len(lit) - 1) = lit

\* the position after the literal lit when it stands at position q of s
\* (and q is a position), 0 otherwise
AfterLit(s, q, lit) ==
    IF q # 0 /\ HasLit(s, q, lit) THEN q + Len(lit) ELSE 0

\* 11 characters of the class stand at position q of s
IdStartsAt(s, q) == q # 0 /\ IdRun(s, q) >= IdLen

\* where group 5 starts when group 1 is the first i characters and group 2
\* the "/" after them: the two optional groups are greedy, so the matcher
\* tries both present, then only group 3, then only group 4, then neither,
\* and takes the first position followed by 11 characters of the class;
\* 0 when there is none
Group5Start(s, i) ==
    IF IdStartsAt(s, AfterLit(s, AfterLit(s, i + 2, WatchLit), EmbedLit))
    THEN AfterLit(s, AfterLit(s, i + 2, WatchLit), EmbedLit)
    ELSE IF IdStartsAt(s, AfterLit(s, i + 2, WatchLit))
    THEN AfterLit(s, i + 2, WatchLit)
    ELSE IF IdStartsAt(s, AfterLit(s, i + 2, EmbedLit))
    THEN AfterLit(s, i + 2, EmbedLit)
    ELSE IF IdStartsAt(s, i + 2) THEN i + 2
    ELSE 0

\* the length of group 1 ("(.+?)", lazy, at least one character): the
\* shortest length from i on after which "/" and the rest match, 0 when
\* there is none
RECURSIVE Group1Len(_, _)
Group1Len(s, i) ==
    IF i >= Len(s) THEN 0
    ELSE IF s[i + 1] = "/" /\ Group5Start(s, i) # 0 THEN i
    ELSE Group1Len(s, i + 1)

\* VIDEO_ID_REGEX.match(video_id).group(5): "(...{11})+" is greedy, repeats
\* as often as the run of characters allows, and group 5 is its last
\* repetition (<<>> stands for "no match")
VideoIdMatch(s) ==
    LET i == Group1Len(s, 1) IN
    IF i = 0 THEN <<>>
    ELSE LET q == Group5Start(s, i)
             n == IdRun(s, q) \div IdLen
         IN SubSeq(s, q + IdLen * (n - 1), q + IdLen * n - 1)

\* "if len(video_id) != 11: ... raise ValueError ... video_id = group(5)"
NormalizeVideoId(s) ==
    IF Len(s) = IdLen THEN [exc |-> "none", id |-> s]
    ELSE LET m == VideoIdMatch(s) IN
         IF m = <<>> THEN [exc |-> "ValueError", id |-> <<>>]
         ELSE [exc |-> "none", id |-> m]

\* three video ids
IdA == <<"k", "J", "Q", "P", "7", "k", "i", "w", "5", "F", "k">>
IdB == <<"d", "Q", "w", "4", "w", "9", "W", "g", "X", "c", "Q">>
IdC == <<"j", "N", "Q", "X", "A", "C", "9", "I", "V", "R", "w">>

\* sha256(video_id.encode("utf-8")).hexdigest(): a fixed function to 64 hex
\* characters; the digests of IdA and IdB agree on their first 32 characters
\* and differ after them, every other digest agrees with them on the first 4
DigestA == Run("a", 4) \o Run("b", 28) \o Run("c", 32)

DigestB == Run("a", 4) \o Run("b", 28) \o Run("d", 32)

DigestOther == Run("a", 4) \o Run("e", 60)

Sha256Hex(id) ==
    IF id = IdA THEN DigestA ELSE IF id = IdB THEN DigestB ELSE DigestOther

\* --- values of the vote argument: None, a str, an int or a bool
PyNone == [t |-> "None", s |-> "", n |-> 0]

PyStr(x) == [t |-> "str", s |-> x, n |-> 0]

PyInt(k) == [t |-> "int", s |-> "", n |-> k]

PyBool(b) == [t |-> "bool", s |-> "", n |-> IF b THEN 1 ELSE 0]

\* Python's ==: a str equals only the same str, None only None, and a bool
\* is an int (True == 1, False == 0)
PyEq(a, b) ==
    IF a.t = "str" \/ b.t = "str" THEN a.t = b.t /\ a.s = b.s
    ELSE IF a.t = "None" \/ b.t = "None" THEN a.t = b.t
    ELSE a.n = b.n

\* "a in (x, y, ...)"
PyIn(a, tup) == \E i \in 1..Len(tup) : PyEq(a, tup[i])

\* bool(a)
Truthy(a) ==
    IF a.t = "str" THEN a.s # ""
    ELSE IF a.t = "None" THEN FALSE
    ELSE a.n # 0

\* ("yes", "upvote", "up", "good", 1, True)
UpVotes ==
    <<PyStr("yes"), PyStr("upvote"), PyStr("up"), PyStr("good"), PyInt(1),
      PyBool(TRUE)>>

\* ("no", "downvote", "down", "bad", 0, False)
DownVotes ==
    <<PyStr("no"), PyStr("downvote"), PyStr("down"), PyStr("bad"), PyInt(0),
      PyBool(FALSE)>>

\* ("undo", 20)
UndoVotes == <<PyStr("undo"), PyInt(20)>>

\* a normalisation that knows only the words and values "yes", "up", 1,
\* True, "no", "down", 0, False, "undo", 20
VoteTypeShortLists(vote) ==
    IF PyIn(vote, <<PyStr("yes"), PyStr("up"), PyInt(1), PyBool(TRUE)>>) THEN 1
    ELSE IF PyIn(vote, <<PyStr("no"), PyStr("down"), PyInt(0), PyBool(FALSE)>>)
    THEN 0
    ELSE IF PyIn(vote, UndoVotes) THEN 20
    ELSE IF Truthy(vote) THEN 1 ELSE 0

\* the if / elif / else chain of vote_skip_segment
VoteType(vote) ==
    IF PyIn(vote, UpVotes) THEN 1
    ELSE IF PyIn(vote, DownVotes) THEN 0
    ELSE IF PyIn(vote, UndoVotes) THEN 20
    ELSE IF Truthy(vote) THEN 1 ELSE 0

\* the methods whose status dispatch sits in the finally clause of the
\* try / except / else around json.loads
ReadOps ==
    {"get_skip_segments", "get_skip_segments_with_hash", "get_user_info",
     "get_views_for_user", "get_saved_time_for_user", "get_user_name",
     "get_top_users", "get_total_stats", "get_saved_days_formatted",
     "get_segment_info", "search_for_user"}

\* the methods that post and look at the status only
WriteOps ==
    {"add_skip_segments", "vote_skip_segment",
     "post_viewed_video_sponsor_time", "set_user_name"}

Ops == ReadOps \cup WriteOps

\* the methods decorated with @cache(...)
CachedOps == ReadOps

TtlKwargs(n) == [ttlKind |-> "int", ttl |-> n, maxKind |-> "absent", max |-> 0]

\* the keyword arguments of the @cache(...) line of each decorated method
OpKwargs(op) ==
    CASE op \in {"get_skip_segments", "get_skip_segments_with_hash"} ->
            TtlKwargs(SegmentsTtl)
      [] op = "get_user_info" -> TtlKwargs(UserInfoTtl)
      [] op \in {"get_views_for_user", "get_saved_time_for_user",
                 "get_user_name", "get_total_stats",
                 "get_saved_days_formatted"} -> TtlKwargs(CounterTtl)
      [] op = "get_top_users" -> TtlKwargs(TopUsersTtl)
      [] op \in {"get_segment_info", "search_for_user"} ->
            [ttlKind |-> "absent", ttl |-> 0, maxKind |-> "int",
             max |-> InfoMaxEntries]

HTTPKinds ==
    {"BadRequest", "Forbidden", "NotFoundException", "DuplicateException",
     "RateLimitException", "ServerException", "UnexpectedException"}

\* a dispatch of add_skip_segments without its "if code == 409" line
SpecialCodesNoDuplicate(op) ==
    CASE op \in {"get_skip_segments", "get_skip_segments_with_hash",
                 "get_user_info", "get_user_name", "get_segment_info",
                 "search_for_user"} -> {StatusBadRequest, StatusNotFound}
      [] op = "add_skip_segments" ->
            {StatusBadRequest, StatusForbidden, StatusRateLimit}
      [] op = "vote_skip_segment" -> {StatusBadRequest, StatusForbidden}
      [] op \in {"post_viewed_video_sponsor_time", "set_user_name",
                 "get_top_users"} -> {StatusBadRequest}
      [] op \in {"get_views_for_user", "get_saved_time_for_user"} ->
            {StatusNotFound}
      [] op \in {"get_total_stats", "get_saved_days_formatted"} -> {}

\* the "if code == ...: raise ..." lines each method has before "code > 500"
\* (get_segment_info and search_for_user have them after it)
SpecialCodes(op) ==
    CASE op \in {"get_skip_segments", "get_skip_segments_with_hash",
                 "get_user_info", "get_user_name", "get_segment_info",
                 "search_for_user"} -> {StatusBadRequest, StatusNotFound}
      [] op = "add_skip_segments" ->
            {StatusBadRequest, StatusForbidden, StatusRateLimit, StatusDuplicate}
      [] op = "vote_skip_segment" -> {StatusBadRequest, StatusForbidden}
      [] op \in {"post_viewed_video_sponsor_time", "set_user_name",
                 "get_top_users"} -> {StatusBadRequest}
      [] op \in {"get_views_for_user", "get_saved_time_for_user"} ->
            {StatusNotFound}
      [] op \in {"get_total_stats", "get_saved_days_formatted"} -> {}

\* the exception class raised for a status a method singles out
KindOfCode(code) ==
    CASE code = StatusBadRequest -> "BadRequest"
      [] code = StatusForbidden -> "Forbidden"
      [] code = StatusNotFound -> "NotFoundException"
      [] code = StatusDuplicate -> "DuplicateException"
      [] code = StatusRateLimit -> "RateLimitException"

\* one dispatch for all methods, with every "if code == ..." line
StatusErrorOneDispatch(op, code) ==
    IF code \in {StatusBadRequest, StatusForbidden, StatusNotFound,
                 StatusDuplicate, StatusRateLimit}
    THEN KindOfCode(code)
    ELSE IF code > StatusServerError THEN "ServerException"
    ELSE "UnexpectedException"

\* a dispatch that takes only the statuses from 400 on as failures
StatusErrorFrom400(op, code) ==
    IF code < StatusBadRequest THEN "none"
    ELSE IF code \in SpecialCodes(op) THEN KindOfCode(code)
    ELSE IF code > StatusServerError THEN "ServerException"
    ELSE "UnexpectedException"

\* the body of "if code != 200:": the method's own statuses, then
\* "if code > 500: raise ServerException" and "else: raise UnexpectedException"
StatusError(op, code) ==
    IF code \in SpecialCodes(op) THEN KindOfCode(code)
    ELSE IF code > StatusServerError THEN "ServerException"
    ELSE "UnexpectedException"

\* what the server may answer
StatusCodes == {200, 201, 400, 403, 404, 409, 418, 429, 500, 503}

\* response.text: JSON of the shape the method expects, JSON of another
\* shape, or not JSON
AllBodies == {"well_formed", "wrong_shape", "invalid_json"}

\* a response body; entries is what a well-formed answer of the hash lookup
\* lists: one [videoID, segments] per video, segments standing for the
\* list of segment records of that video
Body(kind, entries) == [kind |-> kind, entries |-> entries]

\* the answers of the hash lookup used with the other methods' answers: one
\* lists IdA, the other only IdB
Bodies(op) ==
    IF op = "get_skip_segments_with_hash"
    THEN {Body(k, <<>>) : k \in {"wrong_shape", "invalid_json"}}
         \cup {Body("well_formed", <<[videoID |-> v, segments |-> 1]>>) :
                  v \in {IdA, IdB}}
    ELSE IF op \in ReadOps THEN {Body(k, <<>>) : k \in AllBodies}
    ELSE {Body("well_formed", <<>>)}

\* "for video in data: if video['videoID'] == video_id: ... break": the
\* index of the first entry of the requested video, 0 when the loop ends
\* without a break
FirstMatch(entries, id) ==
    IF \E i \in 1..Len(entries) : entries[i].videoID = id
    THEN CHOOSE i \in 1..Len(entries) :
            /\ entries[i].videoID = id
            /\ \A j \in 1..(i - 1) : entries[j].videoID # id
    ELSE 0

\* the try / except / else part of a read method: json.loads, the scan of
\* get_skip_segments_with_hash, the mapping to model objects
Decode(op, body, id) ==
    IF body.kind = "invalid_json"
    THEN [exc |-> "InvalidJSONException", result |-> 0]
    ELSE IF body.kind = "wrong_shape"
    THEN [exc |-> "MappingError", result |-> 0]
    ELSE IF op # "get_skip_segments_with_hash"
    THEN [exc |-> "none", result |-> 1]
    ELSE IF FirstMatch(body.entries, id) = 0
    THEN [exc |-> "BadRequest", result |-> 0]
    ELSE [exc |-> "none",
          result |-> body.entries[FirstMatch(body.entries, id)].segments]

\* a status dispatch in the else clause instead of the finally clause
ReadOutcomeElse(op, code, body, id) ==
    IF Decode(op, body, id).exc # "none" THEN Decode(op, body, id)
    ELSE IF code # StatusOK
    THEN [exc |-> StatusError(op, code), result |-> 0]
    ELSE Decode(op, body, id)

\* a read method after the request: the finally clause runs last, and an
\* exception it raises replaces the pending exception or return value
ReadOutcome(op, code, body, id) ==
    IF code # StatusOK THEN [exc |-> StatusError(op, code), result |-> 0]
    ELSE Decode(op, body, id)

\* a write method after the request
WriteOutcome(op, code) ==
    IF code # StatusOK THEN [exc |-> StatusError(op, code), result |-> 0]
    ELSE [exc |-> "none", result |-> 0]

\* --- the arguments of a call
ArgKeys == 1..NumArgs

\* a URL of the shape host/id with IdA
UrlA == <<"h", ":", "/", "/", "y", ".", "b", "e", "/">> \o IdA

\* a string that is neither 11 characters long nor matched by VIDEO_ID_REGEX
NotAVideo == <<"h", "e", "l", "l", "o">>

\* strings of the shapes VIDEO_ID_REGEX is written for
Host == <<"h", ":", "/", "/", "w", ".", "y", ".", "c">>

UrlWatchA == Host \o <<"/">> \o WatchLit \o IdA

UrlEmbedA == Host \o <<"/">> \o EmbedLit \o IdA

UrlWatchTimeA == UrlWatchA \o <<"&", "t", "=", "1">>

\* an id followed by other characters of the class: fewer than 11, and 11
UrlSlugA == UrlA \o <<"-", "t", "i", "t", "l", "e">>

UrlTwoIds == UrlA \o IdB

\* a host of 11 characters of the class before the path with the id
UrlHost11 ==
    <<"h", ":", "/", "/">> \o Run("y", 11) \o <<".", "c", "/">> \o IdA

\* strings without an id in a place the pattern looks at
UrlPlaylist ==
    Host \o <<"/", "p", "l", "a", "y", "l", "i", "s", "t", "?", "l", "=", "P">>

UrlShortId == Host \o <<"/">> \o SubSeq(IdA, 1, IdLen - 1)

UrlOtherParam ==
    Host \o <<"/", "w", "a", "t", "c", "h", "?", "f", "=", "s", "&", "v", "=">>
         \o IdA

\* a page that is not a video, with a name of more than 11 characters
UrlFeed ==
    Host \o <<"/", "f", "e", "e", "d", "/">>
         \o <<"s", "u", "b", "s", "c", "r", "i", "p", "t", "i", "o", "n", "s">>

SlashId == <<"/">> \o IdA

LongId == IdA \o <<"k">>

\* 11 characters that are not all of the class
Odd11 == <<"n", "o", "t", " ", "a", "n", " ", "i", "d", "!", "!">>

\* the strings passed as video_id
VideoStrings ==
    {IdA, IdB, IdC, Odd11, UrlA, UrlWatchA, UrlEmbedA, UrlWatchTimeA, UrlSlugA,
     UrlTwoIds, UrlHost11, NotAVideo, UrlPlaylist, UrlShortId, UrlOtherParam,
     UrlFeed, SlashId, LongId, <<>>}

\* the normalisation of each of them, computed once
NormalizedVideo == [v \in VideoStrings |-> NormalizeVideoId(v)]

\* video_hash values: the first n characters of the digest of a video
HashPrefix(id, n) == SubSeq(Sha256Hex(id), 1, n)

\* len(video_hash) at and next to the two numbers the code compares with
HashLens == {3, 4, 5, 32, 33}

\* video_id, video_hash (<<>> for none), category (of get_skip_segments and
\* of vote_skip_segment), segment, segments, vote; keyword tells that the
\* segments of get_segment_info were passed as segments=...
DefaultInput ==
    [key |-> 1, video |-> IdA, video_hash |-> <<>>, category |-> "None",
     segment |-> FALSE, segments |-> "None", vote |-> PyNone,
     keyword |-> FALSE]

OpInputs(op) ==
    CASE op = "get_skip_segments" ->
            {[DefaultInput EXCEPT !.key = k, !.video = v, !.category = c] :
                k \in ArgKeys, v \in {IdA, UrlA, NotAVideo},
                c \in {"None", "sponsor"}}
      [] op = "get_skip_segments_with_hash" ->
            {[DefaultInput EXCEPT !.key = k, !.video = v, !.video_hash = h] :
                k \in ArgKeys, v \in {IdA, NotAVideo},
                h \in {<<>>, HashPrefix(IdA, 5), HashPrefix(IdA, 33)}}
      [] op = "add_skip_segments" ->
            {[DefaultInput EXCEPT !.key = k, !.video = v, !.segment = s,
                                  !.segments = l] :
                k \in ArgKeys, v \in {IdA, NotAVideo}, s \in BOOLEAN,
                l \in {"None", "empty", "some"}}
      [] op = "vote_skip_segment" ->
            {[DefaultInput EXCEPT !.key = k, !.vote = v, !.category = c] :
                k \in ArgKeys,
                v \in {PyNone, PyStr("yes"), PyInt(0), PyStr("undo")},
                c \in {"None", "sponsor"}}
      [] OTHER -> {[DefaultInput EXCEPT !.key = k] : k \in ArgKeys}

\* "if len(video_id) != 11: ... if not video_id_match: raise ValueError"
VideoIdError(inp) == NormalizedVideo[inp.video].exc

\* "if video_hash and not 4 < len(video_hash) < 33: raise TypeError"
HashLengthError(h) ==
    IF h # <<>> /\ ~(HashLenAbove < Len(h) /\ Len(h) < HashLenBelow)
    THEN "TypeError" ELSE "none"

\* "segments is []": the list display makes a new object, and no argument is
\* that object
IsNewList(l) == FALSE

\* the methods that normalise a video id
VideoIdOps ==
    {"get_skip_segments", "get_skip_segments_with_hash", "add_skip_segments"}

\* the checks a method makes before it sends the request, in the order of
\* the code: the segments of add_skip_segments, the video id, the length of
\* video_hash, the arguments of vote_skip_segment, the segments of
\* get_segment_info
ValidationError(op, inp) ==
    IF op = "add_skip_segments" /\ ~inp.segment /\ inp.segments = "empty"
    THEN "ValueError"
    ELSE IF op \in VideoIdOps /\ VideoIdError(inp) # "none" THEN "ValueError"
    ELSE IF op = "get_skip_segments_with_hash"
    THEN HashLengthError(inp.video_hash)
    ELSE IF op = "vote_skip_segment" /\ inp.category = "None"
            /\ inp.vote.t = "None"
    THEN "ValueError"
    ELSE IF op = "get_segment_info" /\ ~inp.segment /\ IsNewList(inp.segments)
    THEN "ValueError"
    ELSE "none"

\* the path each method appends to base_url
Endpoint(op) ==
    CASE op \in {"get_skip_segments", "get_skip_segments_with_hash"} ->
            "/api/skipSegments/"
      [] op = "add_skip_segments" -> "/api/skipSegments"
      [] op = "vote_skip_segment" -> "/api/voteOnSponsorTime"
      [] op = "post_viewed_video_sponsor_time" -> "/api/viewedVideoSponsorTime"
      [] op = "get_user_info" -> "/api/userInfo"
      [] op = "get_views_for_user" -> "/api/getViewsForUser"
      [] op = "get_saved_time_for_user" -> "/api/getSavedTimeForUser"
      [] op = "set_user_name" -> "/api/setUsername"
      [] op = "get_user_name" -> "/api/getUsername"
      [] op = "get_top_users" -> "/api/getTopUsers"
      [] op = "get_total_stats" -> "/api/getTotalStats"
      [] op = "get_saved_days_formatted" -> "/api/getDaysSavedFormatted"
      [] op = "get_segment_info" -> "/api/segmentInfo"
      [] op = "search_for_user" -> "/api/userID"

\* a request, as far as the model follows it: the method, the path, what is
\* appended to the path, and the parameters or body fields videoID,
\* category, requiredSegments, service, type, category (of a vote) and the
\* number of segments; "none" and -1 for a field the request does not have
NoRequestSent ==
    [method |-> "none", endpoint |-> "none", suffix |-> <<>>, videoID |-> <<>>,
     category |-> "none", required |-> "none", service |-> "none",
     type |-> -1, voteCategory |-> "none", segments |-> -1]

\* "categories or self.default_categories" after "if category: categories = [category]"
CategoryParameter(inp) ==
    IF inp.category # "None" THEN inp.category ELSE "default"

\* "(video_hash or sha256(video_id.encode('utf-8')).hexdigest()[:32])"
HashSuffix(cl, inp, id) ==
    IF inp.video_hash # <<>> THEN inp.video_hash
    ELSE SubSeq(Sha256Hex(id), 1, DigestCut)

\* "segments = segments or []" and "if segment: segments.extend([segment])":
\* how many segments the body lists
SegmentsSent(inp) ==
    (IF inp.segments = "some" THEN 1 ELSE 0) + (IF inp.segment THEN 1 ELSE 0)

\* a hash lookup that also sends the videoID parameter of get_skip_segments
RequestWithVideoID(op, cl, inp, id) ==
    LET base == [NoRequestSent EXCEPT
                    !.method = IF op \in ReadOps THEN "GET" ELSE "POST",
                    !.endpoint = Endpoint(op)]
    IN CASE op \in {"get_skip_segments", "get_skip_segments_with_hash"} ->
              [base EXCEPT !.videoID = id,
                           !.suffix = IF op = "get_skip_segments" THEN <<>>
                                      ELSE HashSuffix(cl, inp, id),
                           !.category = CategoryParameter(inp),
                           !.required = "empty", !.service = "YouTube"]
         [] op = "add_skip_segments" ->
              [base EXCEPT !.videoID = id, !.service = "YouTube",
                           !.segments = SegmentsSent(inp)]
         [] op = "vote_skip_segment" ->
              [base EXCEPT !.type = VoteType(inp.vote),
                           !.voteCategory = IF inp.category # "None"
                                            THEN inp.category ELSE "none"]
         [] OTHER -> base

\* the request a method sends once its checks have passed; id is the
\* normalised video id
Request(op, cl, inp, id) ==
    LET base == [NoRequestSent EXCEPT
                    !.method = IF op \in ReadOps THEN "GET" ELSE "POST",
                    !.endpoint = Endpoint(op)]
    IN CASE op = "get_skip_segments" ->
              [base EXCEPT !.videoID = id,
                           !.category = CategoryParameter(inp),
                           !.required = "empty", !.service = "YouTube"]
         [] op = "get_skip_segments_with_hash" ->
              [base EXCEPT !.suffix = HashSuffix(cl, inp, id),
                           !.category = CategoryParameter(inp),
                           !.required = "empty", !.service = "YouTube"]
         [] op = "add_skip_segments" ->
              [base EXCEPT !.videoID = id, !.service = "YouTube",
                           !.segments = SegmentsSent(inp)]
         [] op = "vote_skip_segment" ->
              [base EXCEPT !.type = VoteType(inp.vote),
                           !.voteCategory = IF inp.category # "None"
                                            THEN inp.category ELSE "none"]
         [] OTHER -> base

\* the methods that read self.user_id when they build the request
\* (get_user_info does when it is called without public_userid)
UserIdOps ==
    {"add_skip_segments", "vote_skip_segment", "get_user_info",
     "get_views_for_user", "get_saved_time_for_user", "set_user_name",
     "get_user_name"}

\* what a method does after its checks, which ended in v (id is the
\* normalised video id): it reads self.user_id if it sends it, sends one
\* request and turns the answer into its outcome; carried is the status of
\* the response object the exception is built with
Perform(op, cl, inp, code, body, v, id) ==
    IF v # "none"
    THEN [exc |-> v, result |-> 0, requests |-> 0, carried |-> -1,
          valid |-> FALSE, request |-> NoRequestSent]
    ELSE IF op \in UserIdOps /\ ~cl.user_id
    THEN [exc |-> "AttributeError", result |-> 0, requests |-> 0,
          carried |-> -1, valid |-> TRUE, request |-> NoRequestSent]
    ELSE CHOOSE r \in
            {[exc |-> o.exc, result |-> o.result, requests |-> 1,
              carried |-> IF o.exc \in HTTPKinds \cup {"InvalidJSONException"}
                          THEN code ELSE -1,
              valid |-> TRUE,
              request |-> Request(op, cl, inp, id)] :
                o \in {IF op \in ReadOps THEN ReadOutcome(op, code, body, id)
                       ELSE WriteOutcome(op, code)}} : TRUE

\* the undecorated method: its checks, then the rest
Operation(op, cl, inp, code, body) ==
    CHOOSE r \in
        {Perform(op, cl, inp, code, body, v, id) :
            v \in {ValidationError(op, inp)},
            id \in {NormalizedVideo[inp.video].id}} : TRUE

\* a keyword argument in a call of a decorated method, whose wrapper is
\* "def wrapper(*args)": category is keyword-only in the two methods that
\* have it
KeywordPassed(op, inp) ==
    \/ op \in {"get_skip_segments", "get_skip_segments_with_hash"}
            /\ inp.category # "None"
    \/ op = "get_segment_info" /\ inp.keyword

\* a list among the positional arguments: "args in function.cache" hashes
\* the tuple and raises TypeError (unhashable type: 'list')
Unhashable(op, inp) ==
    op = "get_segment_info" /\ inp.segments # "None" /\ ~inp.keyword

NoRequest ==
    [op |-> "none", code |-> 0, body |-> "none", entries |-> <<>>,
     requests |-> 0, exc |-> "none", ret |-> 0, carried |-> -1,
     cached |-> FALSE, entered |-> FALSE, valid |-> FALSE,
     inp |-> DefaultInput, request |-> NoRequestSent]

\* Client.__init__: uid is the user_id argument and env the value of
\* SPONSORBLOCK_USER_ID, each "None" (not given, not set), "" or a
\* non-empty string. "if not no_env:" guards both assignments of
\* self.user_id, "user_id or ..." takes the argument when it is true, and
\* os.environ.get(...) is false for a variable that is unset or empty.
\* user_id tells whether the attribute exists, user_id_is where its value
\* comes from; given keeps the arguments
Construct(uid, env, no_env, hl) ==
    [hash_length |-> hl,
     user_id |-> ~no_env,
     user_id_is |-> IF no_env THEN "unset"
                    ELSE IF uid \notin {"None", ""} THEN "argument"
                    ELSE IF env \notin {"None", ""} THEN "environment"
                    ELSE "token",
     given |-> [user_id |-> uid, env |-> env, no_env |-> no_env]]

\* Client() where the variable is not set
DefaultClient == Construct("None", "None", FALSE, DefaultHashLength)

\* Client(no_env=True)
NoEnvClient == Construct("None", "None", TRUE, DefaultHashLength)

InitClient ==
    /\ kwargs = [ttlKind |-> "absent", ttl |-> 0, maxKind |-> "absent", max |-> 0]
    /\ cache = <<>>
    /\ now = 0
    /\ lastCall = NoCall
    /\ stored = [k \in Keys |-> NotStored]
    /\ client \in {DefaultClient, NoEnvClient}
    /\ cliCache = [op \in CachedOps |-> <<>>]
    /\ cliCall = NoRequest
    /\ seg = NoSegment
    /\ thr = IdleThreads

\* a call of a method through the wrapper of @cache, when it has one; f is
\* what the undecorated method does. A keyword argument makes the call of
\* wrapper(*args) itself raise TypeError, before the wrapper's body runs; a
\* list argument makes the test of the wrapper's first line raise it
Decorated(op, inp, f) ==
    IF op \in CachedOps /\ (KeywordPassed(op, inp) \/ Unhashable(op, inp))
    THEN [cache |-> cliCache[op], lookup |-> "none", invoked |-> FALSE,
          exc |-> "TypeError", ret |-> 0]
    ELSE IF op \in CachedOps
    THEN wrapper(cliCache[op], OpKwargs(op), inp.key, now, now, now,
                 [exc |-> f.exc, result |-> f.result])
    ELSE [cache |-> <<>>, lookup |-> "none", invoked |-> TRUE,
          exc |-> f.exc, ret |-> f.result]

\* the record of a call: sent tells whether the request went out
CallRecord(op, inp, code, body, f, w, sent) ==
    [op |-> op,
     code |-> IF sent THEN code ELSE 0,
     body |-> IF sent /\ op \in ReadOps THEN body.kind ELSE "none",
     entries |-> IF sent /\ op \in ReadOps THEN body.entries ELSE <<>>,
     requests |-> IF w.invoked THEN f.requests ELSE 0,
     exc |-> w.exc,
     ret |-> w.ret,
     carried |-> IF w.invoked /\ w.exc = f.exc THEN f.carried ELSE -1,
     cached |-> w.lookup = "fresh",
     entered |-> w.invoked,
     valid |-> w.invoked /\ f.valid,
     inp |-> inp,
     request |-> IF w.invoked THEN f.request ELSE NoRequestSent]

\* one call of a Client method
ClientCall(op, inp, code, body) ==
    /\ \E f \in {Operation(op, client, inp, code, body)} :
         \E w \in {Decorated(op, inp, f)} :
            /\ cliCache' = IF op \in CachedOps
                           THEN [cliCache EXCEPT ![op] = w.cache]
                           ELSE cliCache
            /\ cliCall' = CallRecord(op, inp, code, body, f, w,
                                     w.invoked /\ f.requests >= 1)
    /\ UNCHANGED <<cacheVars, client, otherVars>>

ClientCallAny ==
    \E op \in Ops : \E inp \in OpInputs(op) :
        \E code \in StatusCodes, body \in Bodies(op) :
            ClientCall(op, inp, code, body)

NextClient == ClientCallAny

SpecClient == InitClient /\ [][NextClient]_vars

\* --- get_segment_info alone, with the ways of naming no segment; the key
\* of the cache is the tuple of the positional arguments, (self,) or
\* (self, segment), when it holds no list
InfoInputs ==
    {i \in {[DefaultInput EXCEPT !.key = IF sg THEN 2 ELSE 1, !.segment = sg,
                                 !.segments = l, !.keyword = kw] :
                sg \in BOOLEAN, l \in {"None", "empty", "some"},
                kw \in BOOLEAN} :
        i.keyword => i.segments # "None"}

InfoCall ==
    \E inp \in InfoInputs :
        \E code \in StatusCodes, body \in Bodies("get_segment_info") :
            ClientCall("get_segment_info", inp, code, body)

NextInfo == InfoCall

SpecInfo == InitClient /\ [][NextInfo]_vars

\* --- the writing methods alone, with more values of their arguments
VoteWords ==
    {"yes", "upvote", "up", "good", "no", "downvote", "down", "bad", "undo",
     "maybe", "20", ""}

VoteNumbers == {-1, 0, 1, 2, 20}

VoteValues ==
    {PyNone} \cup {PyStr(x) : x \in VoteWords}
        \cup {PyInt(k) : k \in VoteNumbers} \cup {PyBool(b) : b \in BOOLEAN}

WriteInputs(op) ==
    CASE op = "add_skip_segments" ->
            {[DefaultInput EXCEPT !.video = v, !.segment = s, !.segments = l] :
                v \in {IdA, UrlA, NotAVideo}, s \in BOOLEAN,
                l \in {"None", "empty", "some"}}
      [] op = "vote_skip_segment" ->
            {[DefaultInput EXCEPT !.vote = v, !.category = c] :
                v \in VoteValues, c \in {"None", "sponsor"}}
      [] OTHER -> {DefaultInput}

WriteCall ==
    \E op \in WriteOps : \E inp \in WriteInputs(op) :
        \E code \in StatusCodes :
            ClientCall(op, inp, code, Body("well_formed", <<>>))

NextWrite == WriteCall

SpecWrite == InitClient /\ [][NextWrite]_vars

\* --- the methods that normalise a video id, with more strings
VideoIdCall ==
    \E op \in VideoIdOps, v \in VideoStrings, code \in StatusCodes :
        ClientCall(op,
                   [DefaultInput EXCEPT !.video = v,
                                        !.segment = (op = "add_skip_segments")],
                   code, Body("well_formed", <<>>))

NextVideoId == VideoIdCall

SpecVideoId == InitClient /\ [][NextVideoId]_vars

\* --- the constructor with every kind of argument, then the methods
\* that send userID and one that does not
ConstructorArgs == {"None", "", "uid"} \X {"None", "", "env"} \X BOOLEAN

InitConstruct ==
    /\ kwargs = [ttlKind |-> "absent", ttl |-> 0, maxKind |-> "absent", max |-> 0]
    /\ cache = <<>>
    /\ now = 0
    /\ lastCall = NoCall
    /\ stored = [k \in Keys |-> NotStored]
    /\ client \in {Construct(a[1], a[2], a[3], DefaultHashLength) :
                      a \in ConstructorArgs}
    /\ cliCache = [op \in CachedOps |-> <<>>]
    /\ cliCall = NoRequest
    /\ seg = NoSegment
    /\ thr = IdleThreads

UserIdCall ==
    \E op \in UserIdOps \cup {"post_viewed_video_sponsor_time"} :
        \E inp \in OpInputs(op) : \E code \in StatusCodes :
            ClientCall(op, inp, code, Body("well_formed", <<>>))

NextConstruct == UserIdCall

SpecConstruct == InitConstruct /\ [][NextConstruct]_vars

\* --- the hash lookup alone, with more arguments and answers
\* values of hashed_video_id_length
HashLengths == {4, 8, 32}

\* one element of the list the server answers with
HashEntries == [videoID : {IdA, IdB}, segments : Results]

\* the lists of at most MaxEntries elements
EntryLists == UNION {[1..n -> HashEntries] : n \in 0..MaxEntries}

HashBodies ==
    {Body("well_formed", l) : l \in EntryLists}
        \cup {Body(k, <<>>) : k \in {"wrong_shape", "invalid_json"}}

\* video_hash: nothing, the first characters of the digest of IdA (which
\* IdB shares up to 32) or of another video
HashValues ==
    {<<>>} \cup {HashPrefix(IdA, n) : n \in HashLens} \cup {HashPrefix(IdC, 5)}

InitHash ==
    /\ kwargs = [ttlKind |-> "absent", ttl |-> 0, maxKind |-> "absent", max |-> 0]
    /\ cache = <<>>
    /\ now = 0
    /\ lastCall = NoCall
    /\ stored = [k \in Keys |-> NotStored]
    /\ client \in {[DefaultClient EXCEPT !.hash_length = n] : n \in HashLengths}
    /\ cliCache = [op \in CachedOps |-> <<>>]
    /\ cliCall = NoRequest
    /\ seg = NoSegment
    /\ thr = IdleThreads

\* calls that differ in the answer
HashLookupCall ==
    \E v \in {IdA, IdB, UrlA}, code \in {StatusOK, StatusNotFound},
       body \in HashBodies :
        ClientCall("get_skip_segments_with_hash",
                   [DefaultInput EXCEPT !.video = v], code, body)

\* calls that differ in the arguments
HashRequestCall ==
    \E v \in {IdA, IdB, IdC, UrlA, NotAVideo}, h \in HashValues,
       c \in {"None", "sponsor"}, code \in {StatusOK, StatusNotFound} :
        ClientCall("get_skip_segments_with_hash",
                   [DefaultInput EXCEPT !.video = v, !.video_hash = h,
                                        !.category = c],
                   code,
                   Body("well_formed", <<[videoID |-> IdA, segments |-> 1]>>))

NextHash == HashLookupCall \/ HashRequestCall

SpecHash == InitHash /\ [][NextHash]_vars

\* ------------------------------------------------------- the cache alone
\* the decorated function: returns some result or raises
FunctionOutcomes ==
    {[exc |-> "none", result |-> r] : r \in Results}
        \cup {[exc |-> "Error", result |-> 0]}

\* cache(), cache(ttl=timedelta), cache(max_entries=None|int), both
DecoratorKwargs ==
    {[ttlKind |-> "absent", ttl |-> 0, maxKind |-> mk, max |-> 0] :
        mk \in {"absent", "None"}}
    \cup {[ttlKind |-> "absent", ttl |-> 0, maxKind |-> "int", max |-> m] :
        m \in 1..MaxCap}
    \cup {[ttlKind |-> "timedelta", ttl |-> d, maxKind |-> mk, max |-> 0] :
        d \in 0..MaxTtl, mk \in {"absent", "None"}}
    \cup {[ttlKind |-> "timedelta", ttl |-> d, maxKind |-> "int", max |-> m] :
        d \in 0..MaxTtl, m \in 1..MaxCap}

InitCache ==
    /\ kwargs \in DecoratorKwargs
    /\ cache = <<>>
    /\ now = 0
    /\ lastCall = NoCall
    /\ stored = [k \in Keys |-> NotStored]
    /\ client = DefaultClient
    /\ cliCache = [op \in CachedOps |-> <<>>]
    /\ cliCall = NoRequest
    /\ seg = NoSegment
    /\ thr = IdleThreads

\* time passes between two calls
Tick ==
    /\ now < MaxClock
    /\ now' = now + 1
    /\ UNCHANGED <<kwargs, cache, lastCall, stored, clientVars, otherVars>>

\* one call of the decorated function with positional arguments args
Call(args, d1, d2, fout) ==
    /\ now + d1 + d2 <= MaxClock
    /\ LET t1 == now
           t2 == now + d1
           t3 == now + d1 + d2
           w == wrapper(cache, kwargs, args, t1, t2, t3, fout)
       IN /\ cache' = w.cache
          /\ now' = IF w.lookup = "fresh" THEN t1 ELSE t3
          /\ lastCall' = [key |-> args,
                          lookup |-> w.lookup, invoked |-> w.invoked, exc |-> w.exc,
                          ret |-> w.ret, purged |-> w.purged,
                          evicted |-> w.evicted]
          /\ stored' = [k \in Keys |->
                          IF k = args /\ w.invoked /\ w.exc = "none"
                          THEN [at |-> t3, res |-> fout.result]
                          ELSE IF k \in w.removed
                          THEN NotStored
                          ELSE stored[k]]
    /\ UNCHANGED <<kwargs, clientVars, otherVars>>

CallAny ==
    \E args \in Keys, d1 \in {0, 1}, d2 \in {0, 1},
       fout \in FunctionOutcomes : Call(args, d1, d2, fout)

NextCache == Tick \/ CallAny

SpecCache == InitCache /\ [][NextCache]_vars

\* ------------------------------------------------- properties of the cache
CallInputs == {0, 1} \X {0, 1} \X FunctionOutcomes

TtlOnly == kwargs.ttlKind = "timedelta" /\ kwargs.maxKind # "int"

Entries(c) == {c[i] : i \in 1..Len(c)}

\* C1: with cache(ttl=T) and no capacity limit, once a call with arguments k
\* has stored its result at instant t, every later call with k whose lookup
\* happens at an instant <= t + T returns that stored result and does not
\* invoke the wrapped function.
C1_FreshEntryAnswersWithoutInvoking ==
    [][\A k \in Keys : \A inp \in CallInputs :
        (/\ Call(k, inp[1], inp[2], inp[3])
         /\ TtlOnly
         /\ stored[k].at >= 0
         /\ now <= stored[k].at + kwargs.ttl)
        => (/\ ~lastCall'.invoked
            /\ lastCall'.exc = "none"
            /\ lastCall'.ret = stored[k].res)]_cacheVars

\* a call answered from the cache at the very last instant of the window,
\* after the clock has advanced
C1_Witness ==
    /\ TtlOnly
    /\ kwargs.ttl > 0
    /\ lastCall.key \in Keys
    /\ lastCall.lookup = "fresh"
    /\ ~lastCall.invoked
    /\ now = stored[lastCall.key].at + kwargs.ttl

\* C2: with cache(ttl=T), a call with arguments k whose lookup happens
\* strictly after the expiry of the stored entry of k invokes the wrapped
\* function again; if it returns, the entry of k then holds the new result
\* and the expiry (instant of the store) + T.
C2_ExpiredEntryIsRecomputed ==
    [][\A k \in Keys : \A inp \in CallInputs :
        (/\ Call(k, inp[1], inp[2], inp[3])
         /\ kwargs.ttlKind = "timedelta"
         /\ HasKey(cache, k)
         /\ now > Lookup(cache, k).expiry)
        => (/\ lastCall'.invoked
            /\ lastCall'.exc = inp[3].exc
            /\ inp[3].exc = "none" =>
                /\ Cardinality({i \in 1..Len(cache') : cache'[i].key = k}) = 1
                /\ Lookup(cache', k).result = inp[3].result
                /\ Lookup(cache', k).expiry = now' + kwargs.ttl
                /\ lastCall'.ret = inp[3].result)]_cacheVars

\* an expired entry has just been recomputed and replaced
C2_Witness ==
    /\ kwargs.ttlKind = "timedelta"
    /\ lastCall.lookup = "expired"
    /\ lastCall.invoked
    /\ lastCall.exc = "none"
    /\ HasKey(cache, lastCall.key)
    /\ Lookup(cache, lastCall.key).expiry = now + kwargs.ttl

\* C3: with cache(max_entries=N), N >= 1, with or without a ttl, the cache
\* never holds more than N entries.
C3_NeverMoreThanMaxEntries ==
    (kwargs.maxKind = "int" /\ kwargs.max >= 1) => Len(cache) <= kwargs.max

\* the cache is full right after an insertion that had to evict
C3_Witness ==
    /\ kwargs.maxKind = "int"
    /\ Len(cache) = kwargs.max
    /\ lastCall.evicted # 0
    /\ lastCall.exc = "none"

\* the entries of c other than the one of key k, in order
WithoutKey(c, k) == SelectSeq(c, LAMBDA e : e.key # k)

\* the entries of c are the entries at the positions keep of d, in d's order
IsRestriction(c, d, keep) ==
    /\ Len(c) = Cardinality(keep)
    /\ \A i \in keep : \E j \in 1..Len(c) :
          /\ c[j] = d[i]
          /\ j = Cardinality({i2 \in keep : i2 <= i})

C5_FailureIsNotCached ==
    [][\A k \in Keys : \A inp \in CallInputs :
        Call(k, inp[1], inp[2], inp[3]) =>
           /\ (IsMiss(cache, k, now) /\ inp[3].exc # "none") =>
                /\ lastCall'.exc = inp[3].exc
                /\ HasKey(cache', k) =>
                      HasKey(cache, k) /\ Lookup(cache', k) = Lookup(cache, k)
                /\ IsMiss(cache', k, now')
           /\ (lastCall.key = k /\ lastCall.exc # "none") => lastCall'.invoked
           /\ \A k2 \in KeysOf(cache') \ {k} :
                HasKey(cache, k2) /\ Lookup(cache', k2) = Lookup(cache, k2)]_cacheVars

\* a call has just failed while other results are cached
C5_Witness ==
    /\ lastCall.exc = "Error"
    /\ lastCall.invoked
    /\ cache # <<>>
    /\ ~HasKey(cache, lastCall.key)

\* C6 as stated: at most one entry per argument tuple, and no entry whose
\* expiry has passed is ever held.
C6_NoExpiredEntryHeld ==
    /\ \A i, j \in 1..Len(cache) : cache[i].key = cache[j].key => i = j
    /\ \A i \in 1..Len(cache) : now <= cache[i].expiry

\* C6 amended: the cache holds at most one entry per argument tuple, and an
\* entry whose expiry has passed, though it may still be held, never answers
\* a call: a call is answered from the cache only by an entry that is
\* unexpired at the lookup, and an expired entry makes the call recompute.
C6_OneEntryPerKeyAndExpiredNeverServed ==
    /\ [](\A i, j \in 1..Len(cache) : cache[i].key = cache[j].key => i = j)
    /\ [][\A k \in Keys : \A inp \in CallInputs :
            Call(k, inp[1], inp[2], inp[3]) =>
               /\ ~lastCall'.invoked =>
                    /\ HasKey(cache, k)
                    /\ now <= Lookup(cache, k).expiry
                    /\ lastCall'.ret = Lookup(cache, k).result
               /\ (HasKey(cache, k) /\ now > Lookup(cache, k).expiry) =>
                    lastCall'.invoked]_cacheVars

\* an expired entry is held next to a live one, and the last call recomputed
\* an expired entry in place
C6_Witness ==
    /\ Len(cache) >= 2
    /\ \E i \in 1..Len(cache) : cache[i].expiry < now
    /\ lastCall.lookup = "expired"
    /\ lastCall.invoked

\* C7: with no ttl configured an entry never expires: it is removed only by
\* the capacity branch, and as long as it is held a call with its arguments
\* returns its result without invoking the function, however far the clock
\* has advanced.
C7_NoTtlNeverExpires ==
    /\ [](kwargs.ttlKind = "absent" =>
            \A k \in Keys : stored[k].at >= 0 =>
                /\ HasKey(cache, k)
                /\ Lookup(cache, k).result = stored[k].res
                /\ Lookup(cache, k).expiry > now)
    /\ [][\A k \in Keys : \A inp \in CallInputs :
            (/\ Call(k, inp[1], inp[2], inp[3])
             /\ kwargs.ttlKind = "absent"
             /\ HasKey(cache, k))
            => (/\ ~lastCall'.invoked
                /\ lastCall'.exc = "none"
                /\ lastCall'.ret = Lookup(cache, k).result
                /\ cache' = cache)]_cacheVars

\* an entry stored at instant 0 answers a call at the last instant
C7_Witness ==
    /\ kwargs.ttlKind = "absent"
    /\ lastCall.key \in Keys
    /\ lastCall.lookup = "fresh"
    /\ stored[lastCall.key].at = 0
    /\ now = MaxClock

\* ------------------------------------------------ properties of the client
\* C8: whenever a Client method has issued its request and the response
\* status is not 200, the call ends with exactly one of the HTTP failure
\* kinds, built with that response, and returns no value.
C8_Non200AlwaysRaisesHTTPKind ==
    (cliCall.requests = 1 /\ cliCall.code # StatusOK) =>
        /\ cliCall.exc \in HTTPKinds
        /\ cliCall.carried = cliCall.code
        /\ cliCall.ret = 0

\* a read method answered 201 with a well-formed body fails all the same
C8_Witness ==
    /\ cliCall.op \in ReadOps
    /\ cliCall.requests = 1
    /\ cliCall.code = 201
    /\ cliCall.body = "well_formed"
    /\ cliCall.exc = "UnexpectedException"

\* C9: a response with any status >= 500, 500 itself included, makes the
\* method fail with ServerException.
C9_ServerExceptionFrom500 ==
    (cliCall.requests = 1 /\ cliCall.code >= StatusServerError) =>
        cliCall.exc = "ServerException"

\* C10 as stated: a read method answered with a status other than 200 and a
\* body that is not JSON fails with InvalidJSONException.
C10_JSONErrorTakesPrecedence ==
    (/\ cliCall.op \in ReadOps
     /\ cliCall.requests = 1
     /\ cliCall.code # StatusOK
     /\ cliCall.body = "invalid_json") =>
        cliCall.exc = "InvalidJSONException"

\* C10 amended: a read method answered with a body that is not JSON fails
\* with the HTTP failure kind of the status when the status is not 200 (the
\* status dispatch of the finally clause replaces the pending
\* InvalidJSONException), and with InvalidJSONException only when the status
\* is 200.
C10_StatusTakesPrecedence ==
    (/\ cliCall.op \in ReadOps
     /\ cliCall.requests = 1
     /\ cliCall.body = "invalid_json") =>
        /\ cliCall.code # StatusOK =>
              cliCall.exc \in HTTPKinds /\ cliCall.exc # "InvalidJSONException"
        /\ cliCall.code = StatusOK => cliCall.exc = "InvalidJSONException"

\* get_user_info answered 404 with a body that is not JSON
C10_Witness ==
    /\ cliCall.op = "get_user_info"
    /\ cliCall.requests = 1
    /\ cliCall.code = StatusNotFound
    /\ cliCall.body = "invalid_json"
    /\ cliCall.exc = "NotFoundException"

\* ----------------------------------------- properties of single methods
\* C11: when add_skip_segments has sent its request, the status of the
\* response decides the outcome: 400 raises BadRequest, 403 Forbidden,
\* 409 DuplicateException, 429 RateLimitException, and 200 raises nothing.
C11_AddSkipSegmentsStatusKinds ==
    (cliCall.op = "add_skip_segments" /\ cliCall.requests = 1) =>
        /\ cliCall.code = StatusBadRequest => cliCall.exc = "BadRequest"
        /\ cliCall.code = StatusForbidden => cliCall.exc = "Forbidden"
        /\ cliCall.code = StatusDuplicate => cliCall.exc = "DuplicateException"
        /\ cliCall.code = StatusRateLimit => cliCall.exc = "RateLimitException"
        /\ cliCall.code = StatusOK => cliCall.exc = "none"

\* a submission of one segment answered 409
C11_Witness ==
    /\ cliCall.op = "add_skip_segments"
    /\ cliCall.requests = 1
    /\ cliCall.request.segments = 1
    /\ cliCall.code = StatusDuplicate
    /\ cliCall.exc = "DuplicateException"

\* the request of the hash lookup has been sent
HashRequestSent ==
    cliCall.op = "get_skip_segments_with_hash" /\ cliCall.requests = 1

\* the normalised video id of the last call
RequestedId == NormalizedVideo[cliCall.inp.video].id

\* C12: when get_skip_segments_with_hash is answered 200 with a list of
\* [videoID, segments] entries, the call returns the segments of an entry
\* whose videoID equals the normalised requested id, and when no entry has
\* that id it fails with BadRequest.
C12_ReturnsMatchingEntryOnly ==
    (/\ HashRequestSent
     /\ cliCall.code = StatusOK
     /\ cliCall.body = "well_formed") =>
        LET m == {i \in 1..Len(cliCall.entries) :
                    cliCall.entries[i].videoID = RequestedId}
        IN /\ m = {} => cliCall.exc = "BadRequest"
           /\ m # {} =>
                /\ cliCall.exc = "none"
                /\ \E i \in m : cliCall.ret = cliCall.entries[i].segments

\* s holds sub as a run of consecutive characters
Contains(s, sub) ==
    \E i \in 0..(Len(s) - Len(sub)) : SubSeq(s, i + 1, i + Len(sub)) = sub

\* C13: a request sent by get_skip_segments_with_hash holds the video id
\* neither in the path nor in a parameter, and two requests whose videos
\* have the same sent hash prefix (and the same category arguments) are the
\* same request.
C13_RequestHidesVideoId ==
    /\ [](HashRequestSent =>
            /\ cliCall.request.videoID = <<>>
            /\ ~Contains(cliCall.request.suffix, RequestedId)
            /\ cliCall.request.endpoint = "/api/skipSegments/")
    /\ [][(/\ HashRequestSent
            /\ HashRequestSent'
            /\ cliCall'.request.suffix = cliCall.request.suffix
            /\ cliCall'.inp.category = cliCall.inp.category)
           => cliCall'.request = cliCall.request]_vars

\* a request for IdB that carries the prefix IdA has too
C13_Witness ==
    /\ HashRequestSent
    /\ RequestedId = IdB
    /\ cliCall.inp.video_hash = <<>>
    /\ cliCall.request.suffix = HashPrefix(IdA, DigestCut)

\* C14: without a video_hash, the path of the request ends with the first
\* hashed_video_id_length characters of the SHA-256 hex digest of the
\* video id.
C14_PrefixHasConfiguredLength ==
    (HashRequestSent /\ cliCall.inp.video_hash = <<>>) =>
        cliCall.request.suffix =
            SubSeq(Sha256Hex(RequestedId), 1, client.hash_length)

\* C15: a video_hash of 4 to 32 characters is accepted and the request is
\* sent; a video_hash of another length, except the empty one, is
\* rejected with an error and no request is sent.
C15_HashLengths4To32Accepted ==
    (/\ cliCall.op = "get_skip_segments_with_hash"
     /\ cliCall.entered
     /\ VideoIdError(cliCall.inp) = "none"
     /\ cliCall.inp.video_hash # <<>>) =>
        IF 4 <= Len(cliCall.inp.video_hash) /\ Len(cliCall.inp.video_hash) <= 32
        THEN cliCall.requests = 1
        ELSE cliCall.requests = 0 /\ cliCall.exc # "none"

\* 11 characters of a video id at position q of s
IdAt(s, q) ==
    /\ q + IdLen - 1 <= Len(s)
    /\ \A j \in q..(q + IdLen - 1) : s[j] \in IdChars

\* position q of s is where a URL has its video id: after some characters,
\* a slash, and nothing or "watch?v=" or the embed prefix
IdPlace(s, q) ==
    \E lit \in {<<>>, WatchLit, EmbedLit} :
        /\ q - Len(lit) - 1 >= 2
        /\ s[q - Len(lit) - 1] = "/"
        /\ SubSeq(s, q - Len(lit), q - 1) = lit

\* the 11 characters a string has at such a place
UrlShapeIds(s) ==
    {SubSeq(s, q, q + IdLen - 1) :
        q \in {q \in 3..Len(s) : IdPlace(s, q) /\ IdAt(s, q)}}

\* those of them that are not followed by a further character of an id
UrlShapeExactIds(s) ==
    {SubSeq(s, q, q + IdLen - 1) :
        q \in {q \in 3..Len(s) :
                 /\ IdPlace(s, q) /\ IdAt(s, q)
                 /\ (q + IdLen <= Len(s) => s[q + IdLen] \notin IdChars)}}

\* C16: in get_skip_segments, get_skip_segments_with_hash and
\* add_skip_segments a video id of 11 characters is used unchanged, a URL
\* of a recognized shape with an 11-character id gives that id, and every
\* other string is refused with ValueError before any request. A string
\* with more than 11 id characters at the place of the id is allowed either
\* reading: refused, or the 11 characters at that place. Stated for a
\* client that has its user_id.
C16_NormalizationIdOrUrlOrValueError ==
    (cliCall.op \in VideoIdOps /\ cliCall.entered /\ client.user_id) =>
        LET v == cliCall.inp.video
            named == cliCall.op # "get_skip_segments_with_hash"
            sent == cliCall.request.videoID
            refused == cliCall.exc = "ValueError" /\ cliCall.requests = 0
        IN IF Len(v) = IdLen
           THEN cliCall.requests = 1 /\ (named => sent = v)
           ELSE IF UrlShapeExactIds(v) # {}
           THEN cliCall.requests = 1 /\ (named => sent \in UrlShapeExactIds(v))
           ELSE IF UrlShapeIds(v) # {}
           THEN refused
                \/ (cliCall.requests = 1 /\ (named => sent \in UrlShapeIds(v)))
           ELSE refused

\* vote_skip_segment has sent its request, and a vote was given
VoteSent ==
    /\ cliCall.op = "vote_skip_segment"
    /\ cliCall.requests = 1
    /\ cliCall.inp.vote.t # "None"

\* the vote is one of the words ws, or the number k (True is 1, False is 0)
VoteIs(ws, k) ==
    \/ cliCall.inp.vote.t = "str" /\ cliCall.inp.vote.s \in ws
    \/ cliCall.inp.vote.t \in {"int", "bool"} /\ cliCall.inp.vote.n = k

\* the truth value of the vote, as 0 or 1
VoteTruth ==
    IF cliCall.inp.vote.t = "str"
    THEN (IF cliCall.inp.vote.s = "" THEN 0 ELSE 1)
    ELSE (IF cliCall.inp.vote.n = 0 THEN 0 ELSE 1)

\* C17 as stated: the type sent is 1 for "yes", "up", 1, True, 0 for "no",
\* "down", 0, False, 20 for "undo", 20, and the truth value of any other
\* vote.
C17_VoteTypeTwoWordsEach ==
    VoteSent =>
        cliCall.request.type =
            IF VoteIs({"yes", "up"}, 1) THEN 1
            ELSE IF VoteIs({"no", "down"}, 0) THEN 0
            ELSE IF VoteIs({"undo"}, 20) THEN 20
            ELSE VoteTruth

\* C17, amended: the type sent is 1 for "yes", "upvote", "up", "good", 1,
\* True, 0 for "no", "downvote", "down", "bad", 0, False, 20 for "undo",
\* 20, and the truth value of any other vote.
C17_VoteTypeFourWordsEach ==
    VoteSent =>
        cliCall.request.type =
            IF VoteIs({"yes", "upvote", "up", "good"}, 1) THEN 1
            ELSE IF VoteIs({"no", "downvote", "down", "bad"}, 0) THEN 0
            ELSE IF VoteIs({"undo"}, 20) THEN 20
            ELSE VoteTruth

\* the vote "downvote" was sent as type 0
C17_Witness ==
    /\ VoteSent
    /\ cliCall.inp.vote = PyStr("downvote")
    /\ cliCall.request.type = 0

\* C18: vote_skip_segment called with neither a vote nor a category raises
\* ValueError and sends nothing; called with a vote, a category or both it
\* sends exactly one POST.
C18_VoteNeedsVoteOrCategory ==
    cliCall.op = "vote_skip_segment" =>
        IF cliCall.inp.vote.t = "None" /\ cliCall.inp.category = "None"
        THEN cliCall.exc = "ValueError" /\ cliCall.requests = 0
        ELSE cliCall.requests = 1 /\ cliCall.request.method = "POST"

\* C19: add_skip_segments called without a segment and with an empty list
\* of segments or with no list raises ValueError and sends nothing (stated
\* for a client that has its user_id).
C19_ZeroSegmentsRefused ==
    (cliCall.op = "add_skip_segments" /\ client.user_id
        /\ ~cliCall.inp.segment /\ cliCall.inp.segments \in {"None", "empty"})
        => cliCall.exc = "ValueError" /\ cliCall.requests = 0

\* C20: a call of any method that passes the method's checks and is not
\* answered from the cache sends exactly one request, whatever the answer,
\* and when the status is not 200 the call ends in an exception.
C20_OneRequestPerCall ==
    (cliCall.valid /\ ~cliCall.cached) =>
        /\ cliCall.requests = 1
        /\ cliCall.code # StatusOK => cliCall.exc # "none"


\* ------------------------------------------- properties of the constructor
\* C21: however the client was constructed it has a user id: the argument
\* when one was given, else the value of the environment variable when it
\* is set, else a fresh token; and no method that sends userID fails for
\* want of it.
C21_ClientAlwaysHasUserId ==
    /\ client.user_id
    /\ client.given.user_id \notin {"None", ""}
            => client.user_id_is = "argument"
    /\ (client.given.user_id = "None" /\ client.given.env \notin {"None", ""})
            => client.user_id_is = "environment"
    /\ (client.given.user_id = "None" /\ client.given.env = "None")
            => client.user_id_is = "token"
    /\ cliCall.op \in UserIdOps => cliCall.exc # "AttributeError"

\* ------------------------------------- properties of the decorated methods
\* the methods decorated with a ttl of 5 minutes, 15 minutes, 1 minute, 1 hour
TtlClaimOps ==
    {"get_skip_segments", "get_skip_segments_with_hash", "get_user_info",
     "get_views_for_user", "get_saved_time_for_user", "get_user_name",
     "get_top_users"}

\* C22: after a call of one of these methods whose request was answered 200
\* with a body the method can read, a second call with the same arguments
\* within the ttl (the clock of this specification stands still) sends no
\* request and returns the result of the first.
C22_SecondCallAnsweredFromCache ==
    [][(/\ cliCall.op \in TtlClaimOps
        /\ cliCall.requests = 1
        /\ cliCall.code = StatusOK
        /\ cliCall.body = "well_formed"
        /\ cliCall.exc \notin {"BadRequest", "AttributeError"}
        /\ cliCall'.op = cliCall.op
        /\ cliCall'.inp = cliCall.inp)
       => (/\ cliCall'.requests = 0
           /\ cliCall'.cached
           /\ cliCall'.exc = "none"
           /\ cliCall.exc = "none"
           /\ cliCall'.ret = cliCall.ret)]_vars

\* --------------------------------------------------- Segment.from_dict
\* Times are whole numbers of ticks, TicksPerMicro ticks to the microsecond,
\* so that the seconds handed to timedelta have digits below its resolution.
TicksPerMicro == 4
MaxTicks == 9

\* reversed(seq)
Reversed(seq) == [i \in 1..Len(seq) |-> seq[Len(seq) + 1 - i]]

\* functools.reduce(operator.sub, seq) of a sequence that is not empty
RECURSIVE ReduceSub(_)
ReduceSub(seq) ==
    IF Len(seq) = 1 THEN seq[1]
    ELSE ReduceSub(SubSeq(seq, 1, Len(seq) - 1)) - seq[Len(seq)]

\* timedelta(seconds=x) if it dropped what is below the microsecond instead of
\* rounding
TimedeltaTruncated(ticks) == ticks \div TicksPerMicro

\* timedelta(seconds=x): x rounded to the nearest microsecond, a tie going to
\* the even one; the value is the number of microseconds
Timedelta(ticks) ==
    IF 2 * (ticks % TicksPerMicro) < TicksPerMicro
        THEN ticks \div TicksPerMicro
    ELSE IF 2 * (ticks % TicksPerMicro) > TicksPerMicro
        THEN (ticks \div TicksPerMicro) + 1
    ELSE IF (ticks \div TicksPerMicro) % 2 = 0
        THEN ticks \div TicksPerMicro
    ELSE (ticks \div TicksPerMicro) + 1

\* Segment.from_dict(data): `start, end = data["segment"]` raises ValueError
\* unless the list has two items
from_dict(data) ==
    IF Len(data.segment) # 2
        THEN [NoSegment EXCEPT !.data = data, !.exc = "ValueError"]
    ELSE [data |-> data, exc |-> "none", made |-> TRUE,
          category |-> data.category,
          start |-> data.segment[1],
          end |-> data.segment[2],
          uuid |-> data.UUID,
          duration |-> Timedelta(ReduceSub(Reversed(data.segment))),
          action_type |-> data.actionType]

Times == 0..MaxTicks

\* the records handed to from_dict
SegmentRecords ==
    [category : {"sponsor", "intro"},
     segment : {<<>>} \cup {<<s>> : s \in Times} \cup (Times \X Times)
                \cup {<<s, e, e>> : s \in {0}, e \in Times},
     UUID : {"abc", "def"},
     actionType : {"skip", "mute"}]

InitSegment ==
    /\ kwargs = [ttlKind |-> "absent", ttl |-> 0, maxKind |-> "absent", max |-> 0]
    /\ cache = <<>>
    /\ now = 0
    /\ lastCall = NoCall
    /\ stored = [k \in Keys |-> NotStored]
    /\ client = DefaultClient
    /\ cliCache = [op \in CachedOps |-> <<>>]
    /\ cliCall = NoRequest
    /\ seg = NoSegment
    /\ thr = IdleThreads

FromDictCall ==
    \E data \in SegmentRecords :
        /\ seg' = from_dict(data)
        /\ UNCHANGED <<cacheVars, clientVars, thr>>

NextSegment == FromDictCall

SpecSegment == InitSegment /\ [][NextSegment]_vars

\* ------------------------------------------- properties of Segment.from_dict
\* C23 as stated: a Segment made from a record with segment [s, e] has a
\* duration of exactly e - s seconds.
C23_DurationIsExactDifference ==
    seg.made =>
        seg.duration * TicksPerMicro = seg.data.segment[2] - seg.data.segment[1]

\* C23 amended: from_dict on a record with category c, segment [s, e], UUID u
\* and actionType a yields a Segment with category c, start s, end e, uuid u,
\* action_type a, and a duration of e - s seconds rounded to the nearest
\* microsecond, a tie going to the even microsecond.
C23_FromDictFields ==
    (Len(seg.data.segment) = 2) =>
        /\ seg.made /\ seg.exc = "none"
        /\ seg.category = seg.data.category
        /\ seg.start = seg.data.segment[1]
        /\ seg.end = seg.data.segment[2]
        /\ seg.uuid = seg.data.UUID
        /\ seg.action_type = seg.data.actionType
        /\ \E d \in {seg.end - seg.start} : \E err \in {seg.duration * TicksPerMicro - d} :
            /\ 2 * err <= TicksPerMicro
            /\ 2 * err >= -TicksPerMicro
            /\ (2 * err \in {TicksPerMicro, -TicksPerMicro}) => seg.duration % 2 = 0

\* a segment whose difference lies exactly between two microseconds and
\* was rounded up to the even one
C23_Witness ==
    /\ seg.made
    /\ seg.data.segment = <<1, 7>>
    /\ seg.duration = 2

\* --------------------------------------- properties of get_segment_info
\* C24: get_segment_info called with no single segment and with no list or
\* an empty list fails with ValueError and sends no request.
C24_NoSegmentRaisesValueError ==
    (/\ cliCall.op = "get_segment_info"
     /\ ~cliCall.inp.segment
     /\ cliCall.inp.segments \in {"None", "empty"})
        => (cliCall.exc = "ValueError" /\ cliCall.requests = 0)

C26_FailedCallLeavesCache ==
    [][(/\ lastCall'.invoked
        /\ lastCall'.exc # "none")
       => cache' = cache]_cacheVars

\* C27: at every instant the purge removes an entry exactly when the lookup
\* of its key at that instant takes it as expired, also at the instant of
\* the expiry itself.
C27_PurgeAgreesWithLookup ==
    \A i \in 1..Len(cache) :
        ~HasKey(Purge(cache, now), cache[i].key)
            <=> IsMiss(cache, cache[i].key, now)

\* ------------------------------------- one cache with room for three keys
\* @cache(ttl=timedelta(OrderTtl), max_entries=OrderCap) and a clock that
\* runs long enough for an entry to expire while a younger one is still good
NumOrderKeys == 4
OrderTtl == 2
OrderCap == 3
OrderClock == 3
MaxInserts == 5

OrderKeys == 1..NumOrderKeys

OrderKwargs ==
    [ttlKind |-> "timedelta", ttl |-> OrderTtl, maxKind |-> "int",
     max |-> OrderCap]

\* history of each key: at and res are the time and the result of its last
\* store, first counts the insertions up to the one that put the key into
\* the dict (0: never inserted)
InitOrder ==
    /\ kwargs = OrderKwargs
    /\ cache = <<>>
    /\ now = 0
    /\ lastCall = NoCall
    /\ stored = [k \in OrderKeys |-> [at |-> -1, res |-> 0, first |-> 0]]
    /\ client = DefaultClient
    /\ cliCache = [op \in CachedOps |-> <<>>]
    /\ cliCall = NoRequest
    /\ seg = NoSegment
    /\ thr = IdleThreads

OrderTick ==
    /\ now < OrderClock
    /\ now' = now + 1
    /\ UNCHANGED <<kwargs, cache, lastCall, stored, clientVars, otherVars>>

\* the number of insertions so far
Insertions == CHOOSE n \in 0..MaxInserts :
    /\ \A k \in OrderKeys : stored[k].first <= n
    /\ n > 0 => \E k \in OrderKeys : stored[k].first = n

\* one call of the decorated function; the call takes no time
OrderCall(args, fout) ==
    /\ \E w \in {wrapper(cache, kwargs, args, now, now, now, fout)} :
         \E stores \in {w.invoked /\ w.exc = "none"} :
         \E inserts \in {stores /\ (~HasKey(cache, args) \/ args \in w.removed)} :
            /\ inserts => Insertions < MaxInserts
            /\ cache' = w.cache
            /\ lastCall' = [key |-> args, lookup |-> w.lookup,
                            invoked |-> w.invoked, exc |-> w.exc,
                            ret |-> w.ret, purged |-> w.purged,
                            evicted |-> w.evicted]
            /\ stored' = IF ~stores THEN stored
                         ELSE [stored EXCEPT ![args] =
                                [at |-> now, res |-> fout.result,
                                 first |-> IF inserts THEN Insertions + 1
                                           ELSE stored[args].first]]
    /\ UNCHANGED <<kwargs, now, clientVars, otherVars>>

\* the decorated function returns its one result or raises
OrderOutcomes ==
    {[exc |-> "none", result |-> 1], [exc |-> "Error", result |-> 0]}

OrderCallAny ==
    \E args \in OrderKeys, fout \in OrderOutcomes : OrderCall(args, fout)

NextOrder == OrderTick \/ OrderCallAny

SpecOrder == InitOrder /\ [][NextOrder]_vars

\* ------------------------------------- properties of the order of eviction
\* C28: a call that recomputes an expired key while the cache is below
\* capacity leaves the key at its place in the dict and leaves it the
\* insertion it had; and a call that evicts at capacity with nothing expired
\* evicts the key whose insertion is the oldest, whenever its result was
\* stored.
C28_RecomputedKeyKeepsItsTurn ==
    [][/\ (/\ now' = now
           /\ lastCall'.lookup = "expired"
           /\ lastCall'.exc = "none"
           /\ ~AtCapacity(cache, kwargs))
          => (/\ [i \in 1..Len(cache') |-> cache'[i].key]
                    = [i \in 1..Len(cache) |-> cache[i].key]
              /\ stored'[lastCall'.key].first = stored[lastCall'.key].first
              /\ stored'[lastCall'.key].at = now)
       /\ (/\ now' = now
           /\ lastCall'.invoked
           /\ lastCall'.evicted # 0
           /\ lastCall'.purged = 0)
          => \A i \in 1..Len(cache) :
                stored[lastCall'.evicted].first <= stored[cache[i].key].first
      ]_cacheVars

\* a key was evicted, with nothing expired, before a key inserted after it
\* whose result is older than the evicted key's recomputed result
C28_Witness ==
    /\ lastCall.evicted # 0
    /\ lastCall.purged = 0
    /\ \E i \in 1..Len(cache) :
        /\ cache[i].key # lastCall.key
        /\ stored[cache[i].key].first > stored[lastCall.evicted].first
        /\ stored[cache[i].key].at < stored[lastCall.evicted].at

\* ------------------------------------ two threads in the wrapper at once
\* Each thread runs wrapper(*args) a step at a time on the one dict of the
\* decorated function: the test of line 87, the capacity test, the rebuild
\* without expired entries, the eviction, the call of the function, the
\* store, the read of the return statement. The clock stands still.
InitThreads ==
    /\ kwargs \in {[ttlKind |-> "absent", ttl |-> 0, maxKind |-> "int",
                    max |-> m] : m \in 1..MaxCap}
    /\ cache = <<>>
    /\ now = 0
    /\ lastCall = NoCall
    /\ stored = [k \in Keys |-> NotStored]
    /\ client = DefaultClient
    /\ cliCache = [op \in CachedOps |-> <<>>]
    /\ cliCall = NoRequest
    /\ seg = NoSegment
    /\ thr = IdleThreads

\* thread t goes to its next step
Goes(t, pc) == thr' = [thr EXCEPT ![t].pc = pc]

\* thread t leaves the wrapper with an exception
Raises(t, exc) == thr' = [thr EXCEPT ![t].pc = "idle", ![t].exc = exc]

\* a thread calls the wrapper
ThreadEnter(t, args) ==
    /\ thr[t].pc = "idle"
    /\ thr' = [thr EXCEPT ![t] = [pc |-> "check", args |-> args, result |-> 0,
                                  stored |-> FALSE, exc |-> "none", ret |-> 0]]
    /\ UNCHANGED <<cacheVars, clientVars, seg>>

\* "if not args in function.cache or datetime.now() > ...['expiry']:"
ThreadCheck(t) ==
    /\ thr[t].pc = "check"
    /\ Goes(t, IF IsMiss(cache, thr[t].args, now) THEN "capacity" ELSE "read")
    /\ UNCHANGED <<cacheVars, clientVars, seg>>

\* "if max_entries is not None and len(function.cache) >= max_entries:"
ThreadCapacity(t) ==
    /\ thr[t].pc = "capacity"
    /\ Goes(t, IF AtCapacity(cache, kwargs) THEN "purge" ELSE "call")
    /\ UNCHANGED <<cacheVars, clientVars, seg>>

\* "function.cache = {key: ... if function.cache[key]['expiry'] > now}"
ThreadPurge(t) ==
    /\ thr[t].pc = "purge"
    /\ cache' = Purge(cache, now)
    /\ Goes(t, "evict")
    /\ UNCHANGED <<kwargs, now, lastCall, stored, clientVars, seg>>

\* "if len(function.cache) >= max_entries: del function.cache[next(iter(...))]"
ThreadEvict(t) ==
    /\ thr[t].pc = "evict"
    /\ cache' = IF Len(cache) >= kwargs.max THEN Evict(cache) ELSE cache
    /\ Goes(t, "call")
    /\ UNCHANGED <<kwargs, now, lastCall, stored, clientVars, seg>>

\* "function(*args)"
ThreadCall(t, fout) ==
    /\ thr[t].pc = "call"
    /\ IF fout.exc # "none" THEN Raises(t, fout.exc)
       ELSE thr' = [thr EXCEPT ![t].pc = "store", ![t].result = fout.result]
    /\ UNCHANGED <<cacheVars, clientVars, seg>>

\* "function.cache[args] = {...}"
ThreadStore(t) ==
    /\ thr[t].pc = "store"
    /\ cache' = Store(cache, [key |-> thr[t].args, result |-> thr[t].result,
                              expiry |-> EntryExpiry(kwargs, now)])
    /\ thr' = [thr EXCEPT ![t].pc = "read", ![t].stored = TRUE]
    /\ UNCHANGED <<kwargs, now, lastCall, stored, clientVars, seg>>

\* "return function.cache[args]['result']"
ThreadRead(t) ==
    /\ thr[t].pc = "read"
    /\ IF HasKey(cache, thr[t].args)
       THEN thr' = [thr EXCEPT ![t].pc = "idle",
                               ![t].ret = Lookup(cache, thr[t].args).result]
       ELSE Raises(t, "KeyError")
    /\ UNCHANGED <<cacheVars, clientVars, seg>>

ThreadStep(t) ==
    \/ \E args \in Keys : ThreadEnter(t, args)
    \/ ThreadCheck(t)
    \/ ThreadCapacity(t)
    \/ ThreadPurge(t)
    \/ ThreadEvict(t)
    \/ \E fout \in FunctionOutcomes : ThreadCall(t, fout)
    \/ ThreadStore(t)
    \/ ThreadRead(t)

NextThreads == \E t \in Threads : ThreadStep(t)

SpecThreads == InitThreads /\ [][NextThreads]_vars

\* --------------------------------------- properties of concurrent callers
\* C29: with two threads in the wrapper, a call that has stored its entry
\* finds it at the final read (no KeyError), and the dict never holds more
\* than max_entries entries.
C29_ConcurrentCallsKeepTheCache ==
    /\ \A t \in Threads : thr[t].stored => thr[t].exc # "KeyError"
    /\ Len(cache) <= kwargs.max

\* --------------------------------------- properties of a category vote
\* C30: vote_skip_segment called with a category and no vote sends the
\* category and no type parameter (type -1 stands for no such parameter).
C30_CategoryAloneSendsNoType ==
    (/\ cliCall.op = "vote_skip_segment"
     /\ cliCall.requests = 1
     /\ cliCall.inp.vote.t = "None"
     /\ cliCall.inp.category # "None")
        => (/\ cliCall.request.voteCategory = cliCall.inp.category
            /\ cliCall.request.type = -1)
====
